---- MODULE Spec2Model ----
(***************************************************************************)
(* Model of app.py: the chunk planner (split_audio), the timestamp shift   *)
(* (adjust_srt_timestamps), the merge (merge_srt_files) and the driver     *)
(* loop of the __main__ block.                                             *)
(*                                                                         *)
(* Text is modelled as a sequence of characters in which every maximal run *)
(* of non-whitespace, non-timestamp characters is one "word" character.    *)
(* Python floats are modelled as IEEE 754 binary64 values: an integer part *)
(* and FracBits binary fraction digits, rounded to Mant significant bits   *)
(* (round to nearest, ties to even) after every arithmetic operation.      *)
(***************************************************************************)
EXTENDS Integers, Sequences, FiniteSets, TLC

VARIABLES
    timestamp,        \* adjust_timestamp: the matched text HH:MM:SS,mmm
    offset_seconds,   \* adjust_timestamp: the offset (a float)
    shifted,          \* adjust_timestamp: the returned text, <<>> before the call
    length,           \* the chunk length in milliseconds the offsets come from
    contents,         \* merge: the list of chunk documents
    start_times,      \* merge: the list of chunk start offsets (floats)
    merged,           \* merge: the merged document
    merge_pc,         \* merge: "call" before the merge, "done" after it
    source,           \* split_audio: len(source), the audio's duration in ms
    plan,             \* split_audio: what the call produced
    pc,               \* driver: the statement the __main__ block is at
    audio,            \* driver: len(audio) in ms
    audio_slices,     \* driver: the chunks split_audio returned
    start_secs,       \* driver: the start offsets split_audio returned
    idx,              \* driver: the loop index of line 181
    srt_content,      \* driver: the document of the chunk at hand
    is_pass,          \* driver: the flag of the retry loop of line 203
    warns,            \* driver: the "[Warn]" lines printed, counted modulo MaxWarns
    raw_srt_contents, \* driver: the documents before refinement
    srt_contents,     \* driver: the documents after refinement
    raw_final_srt,    \* driver: what is written to the _before.srt file
    final_srt         \* driver: what is written to the _after.srt file

shiftVars == <<timestamp, offset_seconds, shifted>>
mergeVars == <<length, contents, start_times, merged, merge_pc>>

planVars == <<source, plan>>

driverVars == <<pc, audio, audio_slices, start_secs, idx, srt_content, is_pass,
                warns, raw_srt_contents, srt_contents, raw_final_srt, final_srt>>

vars == <<shiftVars, mergeVars, planVars, driverVars>>

----------------------------------------------------------------------------
(* Python float arithmetic (IEEE 754 binary64).  A float x >= 0 is the      *)
(* record [int |-> floor(x), frac |-> the binary fraction digits of x],    *)
(* the digits grouped into NLimbs limbs of LimbBits digits (most           *)
(* significant limb first).                                                *)

Mant == 53
LimbBits == 16
NLimbs == 4

Base == 2^LimbBits
FracBits == NLimbs * LimbBits

Zeros == [k \in 1..NLimbs |-> 0]

\* int -> float conversion (exact for the magnitudes that occur here)
FromInt(n) == [int |-> n, frac |-> Zeros]

BitLen(n) ==
    IF n = 0 THEN 0
    ELSE CHOOSE b \in 1..30 : 2^(b-1) <= n /\ (b = 30 \/ n < 2^b)

\* Fraction digit j (1 = the halves digit) of the limbs f
Bit(f, j) ==
    (f[((j - 1) \div LimbBits) + 1] \div 2^(LimbBits - 1 - ((j - 1) % LimbBits))) % 2

LeadingZeros(f) ==
    IF \A j \in 1..FracBits : Bit(f, j) = 0 THEN FracBits
    ELSE (CHOOSE j \in 1..FracBits :
              Bit(f, j) = 1 /\ \A k \in 1..(j-1) : Bit(f, k) = 0) - 1

\* The part of limb k of f that lies below fraction digit j
Below(f, k, j) ==
    IF k * LimbBits <= j THEN 0
    ELSE IF (k - 1) * LimbBits >= j THEN f[k]
    ELSE f[k] % 2^(k * LimbBits - j)

\* f with every digit below digit j cleared
Truncate(f, j) == [k \in 1..NLimbs |-> f[k] - Below(f, k, j)]

\* One unit in fraction digit j (1 <= j <= FracBits)
Unit(j) ==
    [k \in 1..NLimbs |->
        IF k = ((j - 1) \div LimbBits) + 1
        THEN 2^(LimbBits - 1 - ((j - 1) % LimbBits)) ELSE 0]

\* Limbs k..NLimbs of a + b: <<carry out of limb k, the sum limbs k..NLimbs>>
RECURSIVE AddLimbs(_, _, _)
AddLimbs(a, b, k) ==
    IF k > NLimbs THEN <<0, <<>> >>
    ELSE LET low == AddLimbs(a, b, k + 1)
             v   == a[k] + b[k] + low[1]
         IN  <<v \div Base, <<v % Base>> \o low[2]>>

\* The binary64 value nearest to I + 0.f (+ a non-zero tail when sticky),
\* ties to even.
RoundNearestEven(I, f, sticky) ==
    LET keep == IF I > 0 THEN Mant - BitLen(I) ELSE LeadingZeros(f) + Mant
    IN  IF keep >= FracBits THEN [int |-> I, frac |-> f]
        ELSE
        LET guard == Bit(f, keep + 1)
            rest  == sticky \/ \E k \in 1..NLimbs : Below(f, k, keep + 1) # 0
            odd   == IF keep = 0 THEN I % 2 = 1 ELSE Bit(f, keep) = 1
            up    == guard = 1 /\ (rest \/ odd)
            cut   == Truncate(f, keep)
            inc   == IF keep = 0 THEN <<1, cut>> ELSE AddLimbs(cut, Unit(keep), 1)
        IN  IF up THEN [int |-> I + inc[1], frac |-> inc[2]]
                  ELSE [int |-> I, frac |-> cut]

\* Limbs k..NLimbs of r / 1000 for a remainder 0 <= r < 1000, by long
\* division: <<the limbs, the remainder left after the last limb>>
RECURSIVE DivLimbs(_, _)
DivLimbs(r, k) ==
    IF k > NLimbs THEN << <<>>, r>>
    ELSE LET rest == DivLimbs((r * Base) % 1000, k + 1)
         IN  << <<(r * Base) \div 1000>> \o rest[1], rest[2]>>

\* n / 1000 for a non-negative int n: the correctly rounded quotient
Div1000(n) ==
    LET d == DivLimbs(n % 1000, 1)
    IN  RoundNearestEven(n \div 1000, d[1], d[2] # 0)

\* x + y for floats x, y >= 0
AddDbl(x, y) ==
    LET s == AddLimbs(x.frac, y.frac, 1)
    IN  RoundNearestEven(x.int + y.int + s[1], s[2], FALSE)

\* Limbs k..NLimbs of a times 1000: <<carry out of limb k, product limbs>>
RECURSIVE MulLimbs(_, _)
MulLimbs(a, k) ==
    IF k > NLimbs THEN <<0, <<>> >>
    ELSE LET low == MulLimbs(a, k + 1)
             v   == a[k] * 1000 + low[1]
         IN  <<v \div Base, <<v % Base>> \o low[2]>>

\* f * 1000 for a float 0 <= f < 1 given by its fraction limbs
Mul1000(f) ==
    LET s == MulLimbs(f, 1)
    IN  RoundNearestEven(s[1], s[2], FALSE)

----------------------------------------------------------------------------
(* adjust_srt_timestamps.adjust_timestamp: a timestamp text HH:MM:SS,mmm   *)
(* is the tuple <<HH, MM, SS, mmm>> of its fields.                         *)

adjust_timestamp(ts, offset) ==
    LET hours          == ts[1]
        minutes        == ts[2]
        seconds        == ts[3]
        milliseconds   == ts[4]
        total0         == AddDbl(FromInt(hours * 3600 + minutes * 60 + seconds),
                                 Div1000(milliseconds))
        total_seconds  == AddDbl(total0, offset)
        new_hours        == total_seconds.int \div 3600
        new_minutes      == (total_seconds.int % 3600) \div 60
        new_seconds      == total_seconds.int % 60
        new_milliseconds == Mul1000(total_seconds.frac).int
    IN  <<new_hours, new_minutes, new_seconds, new_milliseconds>>

----------------------------------------------------------------------------
(* Text.  A str is a sequence of characters; a character is a newline, a   *)
(* timestamp HH:MM:SS,mmm (what the pattern of line 74 matches, kept as    *)
(* one character with its four fields), or a run of other non-blank        *)
(* characters: the decimal numeral str(n), the arrow " --> " of a time     *)
(* range line, or a piece of subtitle text.                                *)

NL == [k |-> "nl", v |-> <<>>]
Arrow == [k |-> "arrow", v |-> <<>>]
Num(n) == [k |-> "num", v |-> <<n>>]
Words(c, p, w) == [k |-> "text", v |-> <<c, p, w>>]
Ts(t) == [k |-> "ts", v |-> t]

Min(S) == CHOOSE x \in S : \A y \in S : x <= y
Max(S) == CHOOSE x \in S : \A y \in S : y <= x

\* str.strip()
strip(s) ==
    LET solid == {i \in 1..Len(s) : s[i] # NL}
    IN  IF solid = {} THEN <<>> ELSE SubSeq(s, Min(solid), Max(solid))

\* str.split(sep) for a separator of n newlines
RECURSIVE split(_, _)
split(s, n) ==
    LET hits == {i \in 1..(Len(s) - n + 1) : \A d \in 0..(n - 1) : s[i + d] = NL}
    IN  IF hits = {} THEN <<s>>
        ELSE LET i == Min(hits)
             IN  <<SubSeq(s, 1, i - 1)>> \o split(SubSeq(s, i + n, Len(s)), n)

\* sep.join(parts)
RECURSIVE join(_, _)
join(parts, sep) ==
    IF parts = <<>> THEN <<>>
    ELSE IF Len(parts) = 1 THEN parts[1]
    ELSE parts[1] \o sep \o join(Tail(parts), sep)

----------------------------------------------------------------------------
(* adjust_srt_timestamps and merge_srt_files                               *)

adjust_srt_timestamps(text, offset) ==
    IF offset = FromInt(0) THEN text
    ELSE [i \in 1..Len(text) |->
             IF text[i].k = "ts"
             THEN Ts(adjust_timestamp(text[i].v, offset))
             ELSE text[i]]

\* MergeBlock joining the lines of a block with a blank line between them
MergeBlockBlankJoin(block, merged_content, subtitle_index) ==
    IF strip(block) # <<>>
    THEN LET lines == split(strip(block), 1)
         IN  IF Len(lines) >= 3
             THEN <<Append(merged_content,
                           join([lines EXCEPT ![1] = <<Num(subtitle_index)>>],
                                <<NL, NL>>)),
                    subtitle_index + 1>>
             ELSE <<merged_content, subtitle_index>>
    ELSE <<merged_content, subtitle_index>>

\* One pass of the loop body of lines 90-97 on a block:
\* <<merged_content, subtitle_index>> after it
MergeBlock(block, merged_content, subtitle_index) ==
    IF strip(block) # <<>>
    THEN LET lines == split(strip(block), 1)
         IN  IF Len(lines) >= 3
             THEN <<Append(merged_content,
                           join([lines EXCEPT ![1] = <<Num(subtitle_index)>>],
                                <<NL>>)),
                    subtitle_index + 1>>
             ELSE <<merged_content, subtitle_index>>
    ELSE <<merged_content, subtitle_index>>

\* The loop of lines 90-97 from block j on
RECURSIVE MergeBlocks(_, _, _, _)
MergeBlocks(blocks, j, merged_content, subtitle_index) ==
    IF j > Len(blocks) THEN <<merged_content, subtitle_index>>
    ELSE LET r == MergeBlock(blocks[j], merged_content, subtitle_index)
         IN  MergeBlocks(blocks, j + 1, r[1], r[2])

\* MergeChunks numbering the blocks of every chunk from 1
RECURSIVE MergeChunksPerChunk(_, _, _, _, _)
MergeChunksPerChunk(cs, sts, c, merged_content, subtitle_index) ==
    IF c > Len(cs) \/ c > Len(sts) THEN <<merged_content, subtitle_index>>
    ELSE LET adjusted_content == adjust_srt_timestamps(cs[c], sts[c])
             blocks == split(strip(adjusted_content), 2)
             r == MergeBlocks(blocks, 1, merged_content, 1)
         IN  MergeChunksPerChunk(cs, sts, c + 1, r[1], r[2])

\* The loop of lines 83-97 from pair c of zip(contents, start_times) on
RECURSIVE MergeChunks(_, _, _, _, _)
MergeChunks(cs, sts, c, merged_content, subtitle_index) ==
    IF c > Len(cs) \/ c > Len(sts) THEN <<merged_content, subtitle_index>>
    ELSE LET adjusted_content == adjust_srt_timestamps(cs[c], sts[c])
             blocks == split(strip(adjusted_content), 2)
             r == MergeBlocks(blocks, 1, merged_content, subtitle_index)
         IN  MergeChunks(cs, sts, c + 1, r[1], r[2])

merge_srt_files(cs, sts) ==
    join(MergeChunks(cs, sts, 1, <<>>, 1)[1], <<NL, NL>>)

\* MergeOrSingle without the single-document branch
AlwaysMerge(cs, sts) == merge_srt_files(cs, sts)

\* The merge step of the driver (lines 224-229 and 237-242)
MergeOrSingle(cs, sts) ==
    IF Len(cs) = 1 THEN cs[1] ELSE merge_srt_files(cs, sts)

----------------------------------------------------------------------------
(* split_audio.  An AudioSegment is the interval <<from, to>> of the       *)
(* milliseconds it holds; source is the interval <<0, len(source)>>.       *)

\* RangeLen with the last, shorter chunk forgotten
RangeLenFloor(lo, hi, step) ==
    IF step > 0 /\ lo < hi THEN (hi - lo) \div step
    ELSE IF step < 0 /\ lo > hi THEN (lo - hi) \div (0 - step)
    ELSE 0

\* len(range(lo, hi, step)) for step # 0
RangeLen(lo, hi, step) ==
    IF step > 0 /\ lo < hi THEN 1 + ((hi - 1 - lo) \div step)
    ELSE IF step < 0 /\ lo > hi THEN 1 + ((lo - 1 - hi) \div (0 - step))
    ELSE 0

\* source[i:j] for 0 <= i, an audio of len ms: the slice is clamped to the audio
Slice(len, i, j) ==
    <<IF i < len THEN i ELSE len, IF j < len THEN j ELSE len>>

split_audio(len, chunk) ==
    IF chunk = 0
    THEN [status |-> "ValueError", chunks |-> <<>>, start_times |-> <<>>]
    ELSE LET n == RangeLen(0, len, chunk)
         IN  [status |-> "returned",
              chunks |-> [k \in 1..n |->
                             Slice(len, (k - 1) * chunk, (k - 1) * chunk + chunk)],
              start_times |-> [k \in 1..n |-> Div1000((k - 1) * chunk)]]

----------------------------------------------------------------------------
(* The subtitle documents used as inputs.                                  *)

\* The timestamp text of a time given in milliseconds, and back
FromMs(ms) == <<ms \div 3600000, (ms \div 60000) % 60, (ms \div 1000) % 60, ms % 1000>>
ToMs(t) == ((t[1] * 60 + t[2]) * 60 + t[3]) * 1000 + t[4]

RangeLine(a, b) == <<Ts(FromMs(a)), Arrow, Ts(FromMs(b))>>

\* A well-formed block: index line, time range line, one text line
Blk(c, w, n, a, b, p) ==
    <<Num(n), NL>> \o RangeLine(a, b) \o <<NL, Words(c, p, w)>>
\* ... with a second text line
Blk2(c, w, n, a, b, p) ==
    Blk(c, w, n, a, b, p) \o <<NL, Words(c, p + 1, w)>>
\* A block of two lines: index line and time range line, no text
Short(n, a, b) == <<Num(n), NL>> \o RangeLine(a, b)
\* A block of three lines whose second line is "not a timerange"
Bad(c, w, n, p) == <<Num(n), NL, Words(c, 0, w), NL, Words(c, p, w)>>

\* The documents of chunk c in wording w, for a chunk length of len ms
Documents(c, w, len) ==
    << <<>>,
       Blk(c, w, 1, 0, 999, 1),
       Blk(c, w, 1, 1, 500, 1) \o <<NL, NL, NL>> \o Blk2(c, w, 2, len, len, 2)
           \o <<NL>>,
       Short(1, 0, 1) \o <<NL, NL>> \o Blk(c, w, 5, 999, 1000, 1),
       Bad(c, w, 3, 1) \o <<NL, NL>> \o Blk(c, w, 4, 500, 1001, 2),
       Blk(c, w, 9, len + 1, len + 2, 1) >>

NumDocuments == Len(Documents(1, 0, 1))

----------------------------------------------------------------------------
(* Specifications.  Each one draws the inputs of one operation and applies *)
(* it; the variables of the other operations stay idle.                    *)

MaxChunks == 3
MaxAudio == 7
MaxLength == 4

ShiftIdle ==
    /\ timestamp = <<0, 0, 0, 0>>
    /\ offset_seconds = FromInt(0)
    /\ shifted = <<>>

MergeIdle ==
    /\ length = 0
    /\ contents = <<>>
    /\ start_times = <<>>
    /\ merged = <<>>
    /\ merge_pc = "idle"

PlanIdle ==
    /\ source = 0
    /\ plan = [status |-> "idle", chunks |-> <<>>, start_times |-> <<>>]

DriverIdle ==
    /\ pc = "idle"
    /\ audio = 0
    /\ audio_slices = <<>>
    /\ start_secs = <<>>
    /\ idx = 0
    /\ srt_content = <<>>
    /\ is_pass = FALSE
    /\ warns = 0
    /\ raw_srt_contents = <<>>
    /\ srt_contents = <<>>
    /\ raw_final_srt = <<>>
    /\ final_srt = <<>>

ShiftHours == {0, 1}
ShiftMinutes == {0, 59}
ShiftSeconds == {0, 10, 59}
ShiftMillis == {0, 1, 500, 999}
ShiftOffsetsMs == {1, 1000, 60000, 300000}

InitShift ==
    /\ timestamp \in ShiftHours \X ShiftMinutes \X ShiftSeconds \X ShiftMillis
    /\ offset_seconds \in {Div1000(o) : o \in ShiftOffsetsMs}
    /\ shifted = <<>>
    /\ MergeIdle /\ PlanIdle /\ DriverIdle

AdjustTimestamp ==
    /\ shifted = <<>>
    /\ shifted' = adjust_timestamp(timestamp, offset_seconds)
    /\ UNCHANGED <<timestamp, offset_seconds, mergeVars, planVars, driverVars>>

NextShift == AdjustTimestamp

SpecShift == InitShift /\ [][NextShift]_vars

ChunkLengthsMs == {1001, 300000}

InitMerge ==
    /\ length \in ChunkLengthsMs
    /\ \E n \in 1..MaxChunks :
         /\ \E d \in [1..n -> 1..NumDocuments] :
              contents = [c \in 1..n |-> Documents(c, 0, length)[d[c]]]
         /\ start_times \in
              { split_audio(n * length, length).start_times,
                [c \in 1..n |-> Div1000(length)] }
    /\ merged = <<>>
    /\ merge_pc = "call"
    /\ ShiftIdle /\ PlanIdle /\ DriverIdle

Merge ==
    /\ merge_pc = "call"
    /\ merged' = MergeOrSingle(contents, start_times)
    /\ merge_pc' = "done"
    /\ UNCHANGED <<length, contents, start_times, shiftVars, planVars, driverVars>>

NextMerge == Merge

SpecMerge == InitMerge /\ [][NextMerge]_vars

PlanLengths == (0 - 2)..MaxLength
PlanSources == 0..MaxAudio
LongSources == {600000, 700000}
LongLengths == {0 - 300000, 0, 250000, 300000}

InitPlan ==
    /\ \/ source \in PlanSources /\ length \in PlanLengths
       \/ source \in LongSources /\ length \in LongLengths
    /\ plan = [status |-> "call", chunks |-> <<>>, start_times |-> <<>>]
    /\ contents = <<>> /\ start_times = <<>> /\ merged = <<>> /\ merge_pc = "idle"
    /\ ShiftIdle /\ DriverIdle

SplitAudio ==
    /\ plan.status = "call"
    /\ plan' = split_audio(source, length)
    /\ UNCHANGED <<source, mergeVars, shiftVars, driverVars>>

NextPlan == SplitAudio

SpecPlan == InitPlan /\ [][NextPlan]_vars

----------------------------------------------------------------------------
(* The driver: the __main__ block from line 171 on.                        *)

mins == 5
chunk_length == 60 * 1000 * mins

MaxWarns == 3
AudioLengths == {0, 1, 300000, 300001, 700000}
TranscriptIds == {2, 3, 5}
RefinementIds == {2, 4}

\* What transcribe_audio may return for chunk c, and refine_srt_with_gemini
Transcripts(c) == {Documents(c, 0, chunk_length)[d] : d \in TranscriptIds}
Refinements(c) == {Documents(c, 2, chunk_length)[d] : d \in RefinementIds}

\* text.replace(k, v) for the entries of the dictionary: wording 0 holds the
\* wrong terms, wording 1 is the same text with the right ones
apply_error_dictionary2(text) ==
    [i \in 1..Len(text) |->
        IF text[i].k = "text" /\ text[i].v[3] = 0
        THEN Words(text[i].v[1], text[i].v[2], 1)
        ELSE text[i]]

Init ==
    /\ pc = "split"
    /\ audio \in AudioLengths
    /\ audio_slices = <<>>
    /\ start_secs = <<>>
    /\ idx = 0
    /\ srt_content = <<>>
    /\ is_pass = FALSE
    /\ warns = 0
    /\ raw_srt_contents = <<>>
    /\ srt_contents = <<>>
    /\ raw_final_srt = <<>>
    /\ final_srt = <<>>
    /\ ShiftIdle /\ MergeIdle /\ PlanIdle

\* lines 171-178
Split ==
    /\ pc = "split"
    /\ LET r == split_audio(audio, chunk_length)
       IN  /\ audio_slices' = r.chunks
           /\ start_secs' = r.start_times
           /\ pc' = IF Len(r.chunks) = 0 THEN "merge_raw" ELSE "transcribe"
    /\ UNCHANGED <<audio, idx, srt_content, is_pass, warns, raw_srt_contents,
                   srt_contents, raw_final_srt, final_srt>>
    /\ UNCHANGED <<shiftVars, mergeVars, planVars>>

\* lines 181-202
Transcribe ==
    /\ pc = "transcribe"
    /\ \E t \in Transcripts(idx + 1) :
         /\ srt_content' = apply_error_dictionary2(t)
         /\ raw_srt_contents' = Append(raw_srt_contents, apply_error_dictionary2(t))
    /\ is_pass' = FALSE
    /\ pc' = "refine"
    /\ UNCHANGED <<audio, audio_slices, start_secs, idx, warns, srt_contents,
                   raw_final_srt, final_srt>>
    /\ UNCHANGED <<shiftVars, mergeVars, planVars>>

\* lines 203-214: the call of line 206 returns
RefineOk ==
    /\ pc = "refine"
    /\ ~is_pass
    /\ srt_content' \in Refinements(idx + 1)
    /\ is_pass' = TRUE
    /\ UNCHANGED <<pc, audio, audio_slices, start_secs, idx, warns,
                   raw_srt_contents, srt_contents, raw_final_srt, final_srt>>
    /\ UNCHANGED <<shiftVars, mergeVars, planVars>>

\* RefineFail appending the document at hand on every failure
RefineFailAppends ==
    /\ pc = "refine"
    /\ ~is_pass
    /\ warns' = (warns + 1) % MaxWarns
    /\ srt_contents' = Append(srt_contents, srt_content)
    /\ UNCHANGED <<pc, audio, audio_slices, start_secs, idx, srt_content, is_pass,
                   raw_srt_contents, raw_final_srt, final_srt>>
    /\ UNCHANGED <<shiftVars, mergeVars, planVars>>

\* lines 203-206 and 215-217: the call of line 206 raises
RefineFail ==
    /\ pc = "refine"
    /\ ~is_pass
    /\ warns' = (warns + 1) % MaxWarns
    /\ UNCHANGED <<pc, audio, audio_slices, start_secs, idx, srt_content, is_pass,
                   raw_srt_contents, srt_contents, raw_final_srt, final_srt>>
    /\ UNCHANGED <<shiftVars, mergeVars, planVars>>

\* lines 203 and 219: the retry loop ends, the document is appended
AppendRefined ==
    /\ pc = "refine"
    /\ is_pass
    /\ srt_contents' = Append(srt_contents, srt_content)
    /\ idx' = idx + 1
    /\ pc' = IF idx + 1 < Len(audio_slices) THEN "transcribe" ELSE "merge_raw"
    /\ UNCHANGED <<audio, audio_slices, start_secs, srt_content, is_pass, warns,
                   raw_srt_contents, raw_final_srt, final_srt>>
    /\ UNCHANGED <<shiftVars, mergeVars, planVars>>

\* lines 222-233
MergeRaw ==
    /\ pc = "merge_raw"
    /\ raw_final_srt' = MergeOrSingle(raw_srt_contents, start_secs)
    /\ pc' = "merge_refined"
    /\ UNCHANGED <<audio, audio_slices, start_secs, idx, srt_content, is_pass, warns,
                   raw_srt_contents, srt_contents, final_srt>>
    /\ UNCHANGED <<shiftVars, mergeVars, planVars>>

\* lines 235-248
MergeRefined ==
    /\ pc = "merge_refined"
    /\ final_srt' = MergeOrSingle(srt_contents, start_secs)
    /\ pc' = "done"
    /\ UNCHANGED <<audio, audio_slices, start_secs, idx, srt_content, is_pass, warns,
                   raw_srt_contents, srt_contents, raw_final_srt>>
    /\ UNCHANGED <<shiftVars, mergeVars, planVars>>

Next ==
    \/ Split
    \/ Transcribe
    \/ RefineOk
    \/ RefineFail
    \/ AppendRefined
    \/ MergeRaw
    \/ MergeRefined

Spec == Init /\ [][Next]_vars

\* The chunk loop of lines 171-219
ChunkLoop ==
    \/ Split
    \/ Transcribe
    \/ RefineOk
    \/ RefineFail
    \/ AppendRefined

\* The driver is one sequential process: while it is in the chunk loop it
\* always takes its next step.  Whether the call of line 206 returns or
\* raises is not the driver's choice, so no fairness is asked of RefineOk.
LiveSpec == Spec /\ WF_vars(ChunkLoop)

----------------------------------------------------------------------------
(* Reading a document back: its lines, its blocks, its time ranges.        *)

\* The k-th smallest element of a set of numbers
Kth(S, k) == CHOOSE x \in S : Cardinality({y \in S : y < x}) = k - 1

\* The lines of a text: the stretches between its newlines
LinesOf(s) ==
    LET brk == {0} \cup {i \in 1..Len(s) : s[i] = NL} \cup {Len(s) + 1}
    IN  [k \in 1..(Cardinality(brk) - 1) |->
            SubSeq(s, Kth(brk, k) + 1, Kth(brk, k + 1) - 1)]

\* The blocks of a text: the maximal runs of non-empty lines
BlocksOf(s) ==
    LET ls     == LinesOf(s)
        firsts == {a \in 1..Len(ls) : ls[a] # <<>> /\ (a = 1 \/ ls[a - 1] = <<>>)}
        last(a) == Min({e \in a..Len(ls) : e = Len(ls) \/ ls[e + 1] = <<>>})
    IN  [k \in 1..Cardinality(firsts) |->
            SubSeq(ls, Kth(firsts, k), last(Kth(firsts, k)))]

IsRange(line) ==
    Len(line) = 3 /\ line[1].k = "ts" /\ line[2] = Arrow /\ line[3].k = "ts"

\* A block the rule of the specification keeps: three lines or more, the
\* second one a time range
WellFormed(b) == Len(b) >= 3 /\ IsRange(b[2])

\* A block without its index line and with its timestamps blanked
Unstamped(b) ==
    [l \in 1..(Len(b) - 1) |->
        [i \in 1..Len(b[l + 1]) |->
            IF b[l + 1][i].k = "ts" THEN Ts(<<0, 0, 0, 0>>) ELSE b[l + 1][i]]]

AtLeast3(b) == Len(b) >= 3

\* The blocks of three lines or more of the documents c.., in order
RECURSIVE LongBlocksFrom(_, _)
LongBlocksFrom(docs, c) ==
    IF c > Len(docs) THEN <<>>
    ELSE SelectSeq(BlocksOf(docs[c]), AtLeast3) \o LongBlocksFrom(docs, c + 1)

RECURSIVE BlockCountFrom(_, _)
BlockCountFrom(docs, c) ==
    IF c > Len(docs) THEN 0
    ELSE Len(BlocksOf(docs[c])) + BlockCountFrom(docs, c + 1)

RECURSIVE WellFormedCountFrom(_, _)
WellFormedCountFrom(docs, c) ==
    IF c > Len(docs) THEN 0
    ELSE Len(SelectSeq(BlocksOf(docs[c]), WellFormed))
         + WellFormedCountFrom(docs, c + 1)

\* x < y for floats
LessDbl(x, y) ==
    \/ x.int < y.int
    \/ /\ x.int = y.int
       /\ \E k \in 1..NLimbs :
            x.frac[k] < y.frac[k] /\ \A j \in 1..(k - 1) : x.frac[j] = y.frac[j]

StartOf(b) == ToMs(b[2][1].v)
EndOf(b) == ToMs(b[2][3].v)

----------------------------------------------------------------------------
(* The claims.                                                             *)

\* C1: merging two or more documents emits the blocks it keeps in chunk
\* order and in each chunk's own order, and numbers them 1, 2, ..., K across
\* the whole output, whatever the index lines of the inputs were.
C1_Renumbered ==
    (merge_pc = "done" /\ Len(contents) >= 2) =>
        LET out == BlocksOf(merged)
            inp == LongBlocksFrom(contents, 1)
        IN  /\ Len(out) = Len(inp)
            /\ \A k \in 1..Len(out) :
                 /\ out[k][1] = <<Num(k)>>
                 /\ Unstamped(out[k]) = Unstamped(inp[k])

C1_Witness ==
    /\ merge_pc = "done"
    /\ Len(contents) = 3
    /\ Len(BlocksOf(merged)) = 5
    /\ BlocksOf(merged)[5][1] = <<Num(5)>>
    /\ BlocksOf(contents[3])[1][1] = <<Num(9)>>
    /\ BlocksOf(contents[2])[1][1] = <<Num(1)>>

\* C2 (as claimed): merging drops every block of fewer than three lines and
\* every block whose second line is no time range, and keeps every other one.
C2_DropsMalformed ==
    (merge_pc = "done" /\ Len(contents) >= 2) =>
        /\ \A k \in 1..Len(BlocksOf(merged)) : WellFormed(BlocksOf(merged)[k])
        /\ Len(BlocksOf(merged)) = WellFormedCountFrom(contents, 1)

\* C3 (as claimed): shifting a timestamp t by a non-zero offset of o whole
\* milliseconds yields the timestamp of exactly t + o.
C3_ShiftExact ==
    shifted # <<>> =>
        \A o \in ShiftOffsetsMs :
            offset_seconds = Div1000(o) => shifted = FromMs(ToMs(timestamp) + o)

\* C4: merging a single document returns it unchanged, whatever its offset.
C4_SingleUnchanged ==
    (merge_pc = "done" /\ Len(contents) = 1) => merged = contents[1]

C4_Witness ==
    /\ merge_pc = "done"
    /\ Len(contents) = 1
    /\ start_times[1] # FromInt(0)
    /\ merged = contents[1]
    /\ merge_srt_files(contents, start_times) # contents[1]
    /\ Len(BlocksOf(contents[1])) = 2

\* C5: for a duration T > 0 and a chunk length L > 0 the planner returns
\* ceil(T / L) chunks, chunk i (from 0) covering [i*L, min((i+1)*L, T)) with
\* start offset i*L/1000 seconds: no gap, no overlap, all of [0, T).
C5_PlanCovers ==
    (plan.status # "call" /\ plan.status # "idle" /\ source > 0 /\ length > 0) =>
        LET n == (source + length - 1) \div length
        IN  /\ plan.status = "returned"
            /\ Len(plan.chunks) = n
            /\ Len(plan.start_times) = n
            /\ plan.chunks[1][1] = 0
            /\ plan.chunks[n][2] = source
            /\ \A k \in 1..n :
                 /\ plan.chunks[k][1] = (k - 1) * length
                 /\ plan.chunks[k][2] = IF k * length < source THEN k * length ELSE source
                 /\ plan.chunks[k][1] < plan.chunks[k][2]
                 /\ plan.start_times[k] = Div1000((k - 1) * length)
                 /\ length % 1000 = 0 =>
                        plan.start_times[k] = FromInt((k - 1) * (length \div 1000))
            /\ \A k \in 1..(n - 1) : plan.chunks[k][2] = plan.chunks[k + 1][1]

C5_Witness ==
    /\ plan.status = "returned"
    /\ source = 700000
    /\ length = 300000
    /\ plan.start_times = <<FromInt(0), FromInt(300), FromInt(600)>>
    /\ plan.chunks[3] = <<600000, 700000>>

\* C6 (as claimed): for a chunk length of zero or less the planner fails with
\* an error and never returns a list of chunks.
C6_NonPositiveFails ==
    (plan.status # "call" /\ plan.status # "idle" /\ length <= 0) =>
        plan.status = "ValueError"

\* C7 (as claimed): when the offsets are the strictly increasing chunk starts
\* of the chunk length, every block of the inputs is well formed with
\* start <= end, each chunk's starts do not decrease and no timestamp of a
\* chunk exceeds the chunk length, the starts of the merged blocks do not
\* decrease, chunk boundaries included.
C7_Premise ==
    /\ merge_pc = "done"
    /\ Len(contents) >= 2
    /\ \A c \in 1..Len(contents) : start_times[c] = Div1000((c - 1) * length)
    /\ \A c \in 1..(Len(contents) - 1) : LessDbl(start_times[c], start_times[c + 1])
    /\ \A c \in 1..Len(contents) :
         LET bs == BlocksOf(contents[c])
         IN  /\ \A k \in 1..Len(bs) :
                  /\ WellFormed(bs[k])
                  /\ StartOf(bs[k]) <= EndOf(bs[k])
                  /\ EndOf(bs[k]) <= length
             /\ \A k \in 1..(Len(bs) - 1) : StartOf(bs[k]) <= StartOf(bs[k + 1])

C7_Monotone ==
    C7_Premise =>
        LET out == BlocksOf(merged)
        IN  \A k \in 1..(Len(out) - 1) : StartOf(out[k]) <= StartOf(out[k + 1])

\* C9: the merged output never holds more blocks than the inputs together.
C9_NoNewBlocks ==
    merge_pc = "done" => Len(BlocksOf(merged)) <= BlockCountFrom(contents, 1)

C9_Witness ==
    /\ merge_pc = "done"
    /\ Len(contents) = 3
    /\ Len(BlocksOf(merged)) = 3
    /\ BlockCountFrom(contents, 1) = 5

\* C8 (as claimed): a failing refinement does not hold the run up: the
\* driver falls back and goes on to the next chunk, so every run, also one
\* whose refinement calls all fail, gets through all its chunks and comes to
\* the merge that writes the output.
C8_Finishes == <>(pc \in {"merge_raw", "merge_refined", "done"})

\* C10: whatever number of refinement attempts failed, every chunk adds one
\* document to the raw list and one to the refined list, in chunk order; at
\* the merge both lists are as long as the list of offsets and document k
\* is the one of chunk k.
C10_Paired ==
    /\ pc = "transcribe" =>
          Len(raw_srt_contents) = idx /\ Len(srt_contents) = idx
    /\ pc = "refine" =>
          Len(raw_srt_contents) = idx + 1 /\ Len(srt_contents) = idx
    /\ pc \in {"merge_raw", "merge_refined", "done"} =>
          /\ Len(raw_srt_contents) = Len(start_secs)
          /\ Len(srt_contents) = Len(start_secs)
          /\ \A k \in 1..Len(start_secs) :
               /\ \E t \in Transcripts(k) :
                     raw_srt_contents[k] = apply_error_dictionary2(t)
               /\ srt_contents[k] \in Refinements(k)

C10_Witness ==
    /\ pc = "merge_raw"
    /\ Len(start_secs) = 3
    /\ Len(srt_contents) = 3
    /\ warns = 2

====
